---- MODULE Spec2Model ----
(***************************************************************************)
(* Model of hooks/socialmedia.py: the two MkDocs hooks on_page_content and *)
(* on_post_page.                                                           *)
(*                                                                         *)
(* Text is a sequence of segments.  Every character that comes from an     *)
(* input (html, page.url, page.title, config values ...) is a segment of   *)
(* its own; the literal text of the two f-string templates is kept as the  *)
(* source writes it, one segment per template line.  Concatenation is \o   *)
(* and the length of a text is the sum of the lengths of its segments.     *)
(***************************************************************************)
EXTENDS Integers, Sequences, FiniteSets, TLC

VARIABLES html, page, config, content, post, log, calls

vars == <<html, page, config, content, post, log, calls>>

(***************************************************************************)
(* Bounds of the model.                                                    *)
(***************************************************************************)
MaxCalls == 2
MaxUrlLen == 2
MaxPieces == 3

(***************************************************************************)
(* Python values.  A value is None, a str, or (for a dict lookup) absent.  *)
(***************************************************************************)
None == [kind |-> "None", s |-> <<>>]

Absent == [kind |-> "absent", s |-> <<>>]

Unbound == [kind |-> "unbound", s |-> <<>>]

Str(s) == [kind |-> "str", s |-> s]

\* d.get(key, default): the default only when the key is not in the dict.
Get(d, key, default) == IF d[key].kind = "absent" THEN default ELSE d[key]

\* bool(v) for None and str.
Truthy(v) == v.kind = "str" /\ v.s # <<>>

\* a or b
Or(a, b) == IF Truthy(a) THEN a ELSE b

\* What an f-string writes for {v}.
Format(v) == IF v.kind = "None" THEN <<"N", "o", "n", "e">> ELSE v.s

(***************************************************************************)
(* str methods.                                                            *)
(***************************************************************************)
StartsWith(s, prefix) ==
    Len(s) >= Len(prefix) /\ SubSeq(s, 1, Len(prefix)) = prefix

RECURSIVE RStrip(_, _)
RStrip(s, c) ==
    IF s # <<>> /\ s[Len(s)] = c THEN RStrip(SubSeq(s, 1, Len(s) - 1), c) ELSE s

RECURSIVE LStrip(_, _)
LStrip(s, c) ==
    IF s # <<>> /\ s[1] = c THEN LStrip(Tail(s), c) ELSE s

\* str.find, 1-based; 0 when sub does not occur.
RECURSIVE FindFrom(_, _, _)
FindFrom(s, sub, i) ==
    IF i + Len(sub) - 1 > Len(s) THEN 0
    ELSE IF SubSeq(s, i, i + Len(sub) - 1) = sub THEN i
    ELSE FindFrom(s, sub, i + 1)

\* sub in s
Contains(s, sub) == FindFrom(s, sub, 1) # 0

\* s.replace(old, new, count) for a non-empty old: left to right, at most
\* count replacements, never rescanning what it wrote.
RECURSIVE Replace(_, _, _, _)
Replace(s, old, new, count) ==
    LET i == FindFrom(s, old, 1)
    IN  IF count = 0 \/ i = 0 THEN s
        ELSE SubSeq(s, 1, i - 1) \o new
                \o Replace(SubSeq(s, i + Len(old), Len(s)), old, new, count - 1)

(***************************************************************************)
(* urllib.parse.quote(s, safe="")                                          *)
(***************************************************************************)
\* The characters quote never escapes (RFC 3986 unreserved).
AlwaysSafe ==
    { "A", "B", "C", "D", "E", "F", "G", "H", "I", "J", "K", "L", "M",
      "N", "O", "P", "Q", "R", "S", "T", "U", "V", "W", "X", "Y", "Z",
      "a", "b", "c", "d", "e", "f", "g", "h", "i", "j", "k", "l", "m",
      "n", "o", "p", "q", "r", "s", "t", "u", "v", "w", "x", "y", "z",
      "0", "1", "2", "3", "4", "5", "6", "7", "8", "9",
      "_", ".", "-", "~" }

\* ASCII codes of the other characters of the model.
Ord ==
    [c \in {" ", "%", "/", ":", "<", "=", ">", "?"} |->
        CASE c = " " -> 32
          [] c = "%" -> 37
          [] c = "/" -> 47
          [] c = ":" -> 58
          [] c = "<" -> 60
          [] c = "=" -> 61
          [] c = ">" -> 62
          [] c = "?" -> 63]

HexDigits ==
    <<"0", "1", "2", "3", "4", "5", "6", "7", "8", "9", "A", "B", "C", "D", "E", "F">>

QuoteChar(c, safe) ==
    IF c \in AlwaysSafe \cup safe THEN <<c>>
    ELSE <<"%", HexDigits[(Ord[c] \div 16) + 1], HexDigits[(Ord[c] % 16) + 1]>>

RECURSIVE Quote(_, _)
Quote(s, safe) ==
    IF s = <<>> THEN <<>> ELSE QuoteChar(Head(s), safe) \o Quote(Tail(s), safe)

(***************************************************************************)
(* Literals of the source.                                                 *)
(***************************************************************************)
PostsPrefix == <<"p", "o", "s", "t", "s", "/">>

PostsPrefixNoSlash == <<"p", "o", "s", "t", "s">>

HeadTag == <<"<", "h", "e", "a", "d", ">">>

Slash == "/"

DefaultContentTitle == <<"Check out this post">>

DefaultPostTitle == <<"Blog Post">>

LinkedInShareBase == <<"https://www.linkedin.com/sharing/share-offsite/?url=">>

ContentLogPrefix == <<"Added LinkedIn share button to: ">>

PostLogPrefix == <<"Added Open Graph meta tags to: ">>

\* share_button_html up to the interpolated {linkedin_share_url}
ShareButtonOpen ==
    << "\n",
       "<div class=\"social-share-container\" style=\"margin-top: 2rem; padding: 1.5rem; border-top: 2px solid var(--md-default-fg-color--lightest); text-align: center;\">\n",
       "    <p style=\"margin-bottom: 1rem; color: var(--md-default-fg-color--light); font-size: 0.9rem;\">\n",
       "        <strong>Found this helpful? Share it on LinkedIn!</strong>\n",
       "    </p>\n",
       "    <a href=\"" >>

\* share_button_html after the interpolated {linkedin_share_url}
ShareButtonClose ==
    << "\" \n",
       "       target=\"_blank\" \n",
       "       rel=\"noopener noreferrer\"\n",
       "       class=\"linkedin-share-button\"\n",
       "       style=\"display: inline-flex; align-items: center; gap: 0.5rem; padding: 0.75rem 1.5rem; \n",
       "              background-color: #0A66C2; color: white; text-decoration: none; \n",
       "              border-radius: 4px; font-weight: 500; transition: background-color 0.3s ease;\n",
       "              box-shadow: 0 2px 4px rgba(0,0,0,0.1);\"\n",
       "       onmouseover=\"this.style.backgroundColor='#004182'\"\n",
       "       onmouseout=\"this.style.backgroundColor='#0A66C2'\">\n",
       "        <svg xmlns=\"http://www.w3.org/2000/svg\" width=\"20\" height=\"20\" viewBox=\"0 0 24 24\" fill=\"currentColor\">\n",
       "            <path d=\"M19 0h-14c-2.761 0-5 2.239-5 5v14c0 2.761 2.239 5 5 5h14c2.762 0 5-2.239 5-5v-14c0-2.761-2.238-5-5-5zm-11 19h-3v-11h3v11zm-1.5-12.268c-.966 0-1.75-.79-1.75-1.764s.784-1.764 1.75-1.764 1.75.79 1.75 1.764-.783 1.764-1.75 1.764zm13.5 12.268h-3v-5.604c0-3.368-4-3.113-4 0v5.604h-3v-11h3v1.765c1.396-2.586 7-2.777 7 2.476v6.759z\"/>\n",
       "        </svg>\n",
       "        Share on LinkedIn\n",
       "    </a>\n",
       "</div>\n",
       "\n",
       "<style>\n",
       "    .linkedin-share-button:hover {\n",
       "        transform: translateY(-2px);\n",
       "        box-shadow: 0 4px 8px rgba(0,0,0,0.15);\n",
       "    }\n",
       "    \n",
       "    @media (max-width: 768px) {\n",
       "        .social-share-container {\n",
       "            padding: 1rem;\n",
       "        }\n",
       "        .linkedin-share-button {\n",
       "            width: 100%;\n",
       "            justify-content: center;\n",
       "        }\n",
       "    }\n",
       "</style>\n" >>

\* The literal text of og_tags around its interpolated values.
OgOpen ==
    << "\n",
       "    <!-- Open Graph / LinkedIn meta tags -->\n",
       "    <meta property=\"og:type\" content=\"article\" />\n",
       "    <meta property=\"og:url\" content=\"" >>

OgTitleOpen == << "\" />\n", "    <meta property=\"og:title\" content=\"" >>

OgDescriptionOpen == << "\" />\n", "    <meta property=\"og:description\" content=\"" >>

OgSiteNameOpen == << "\" />\n", "    <meta property=\"og:site_name\" content=\"" >>

TwitterTitleOpen ==
    << "\" />\n",
       "    \n",
       "    <!-- Twitter Card meta tags (also used by LinkedIn) -->\n",
       "    <meta name=\"twitter:card\" content=\"summary_large_image\" />\n",
       "    <meta name=\"twitter:title\" content=\"" >>

TwitterDescriptionOpen ==
    << "\" />\n", "    <meta name=\"twitter:description\" content=\"" >>

OgClose == << "\" />\n" >>

(***************************************************************************)
(* The parts of the two hooks.                                             *)
(***************************************************************************)
IsPostNoSlash(p) == StartsWith(p.src_uri, PostsPrefixNoSlash)

\* page.file.src_uri.startswith("posts/")
IsPost(p) == StartsWith(p.src_uri, PostsPrefix)

\* hasattr(page, "meta") and page.meta: the attribute exists and is a
\* non-empty dict.
MetaTruthy(p) ==
    p.meta.kind = "dict" /\ (p.meta.other \/ p.meta.description.kind # "absent")

ContentPageUrlNoLStrip(site_url, p) ==
    IF site_url # <<>> THEN site_url \o <<Slash>> \o p.url ELSE p.url

\* on_page_content: f"{site_url}/{page.url.lstrip('/')}" if site_url else page.url
ContentPageUrl(site_url, p) ==
    IF site_url # <<>> THEN site_url \o <<Slash>> \o LStrip(p.url, Slash) ELSE p.url

\* on_post_page: f"{site_url}/{page.url}" if site_url else page.url
PostPageUrl(site_url, p) ==
    IF site_url # <<>> THEN site_url \o <<Slash>> \o p.url ELSE p.url

\* on_page_content: page.title or "Check out this post"
ContentPageTitle(p) == Or(p.title, Str(DefaultContentTitle))

\* on_post_page: page.title or config.get("site_name", "Blog Post")
PostPageTitle(p, c) == Or(p.title, Get(c, "site_name", Str(DefaultPostTitle)))

\* on_page_content: the description of the page meta, else the site's.
ContentPageDescription(p, c) ==
    LET fromMeta == IF MetaTruthy(p)
                    THEN Get(p.meta, "description", Str(<<>>))
                    ELSE Str(<<>>)
    IN  IF ~Truthy(fromMeta)
        THEN Get(c, "site_description", Str(<<>>))
        ELSE fromMeta

\* on_post_page: the site's description, replaced by the page meta's when
\* the meta has the key.
PostPageDescription(p, c) ==
    LET fromConfig == Get(c, "site_description", Str(<<>>))
    IN  IF MetaTruthy(p) THEN Get(p.meta, "description", fromConfig) ELSE fromConfig

EncodedUrlSafeSlash(page_url) == Quote(page_url, {"/"})

\* quote(page_url, safe="")
EncodedUrl(page_url) == Quote(page_url, {})

\* f"https://www.linkedin.com/sharing/share-offsite/?url={encoded_url}"
LinkedInShareUrl(encoded_url) == LinkedInShareBase \o encoded_url

ShareButtonHtmlTitled(linkedin_share_url, page_title, page_description) ==
    ShareButtonOpen \o linkedin_share_url \o Format(page_title) \o ShareButtonClose

\* The f-string share_button_html.  page_title and page_description are
\* locals in its scope; it interpolates linkedin_share_url alone.
ShareButtonHtml(linkedin_share_url, page_title, page_description) ==
    ShareButtonOpen \o linkedin_share_url \o ShareButtonClose

PrependShareButton(h, share_button_html) == share_button_html \o h

\* html = html + share_button_html
AppendShareButton(h, share_button_html) == h \o share_button_html

\* The f-string og_tags.
OgTags(page_url, page_title, page_description, site_name) ==
    OgOpen \o page_url
        \o OgTitleOpen \o Format(page_title)
        \o OgDescriptionOpen \o Format(page_description)
        \o OgSiteNameOpen \o Format(site_name)
        \o TwitterTitleOpen \o Format(page_title)
        \o TwitterDescriptionOpen \o Format(page_description)
        \o OgClose

InsertOgTagsEverywhere(output, og_tags) ==
    Replace(output, HeadTag, HeadTag \o og_tags, Len(output))

\* output.replace("<head>", f"<head>{og_tags}", 1)
InsertOgTags(output, og_tags) == Replace(output, HeadTag, HeadTag \o og_tags, 1)

InsertInHeadAlwaysLogs(output, p, og_tags) ==
    [output |-> IF Contains(output, HeadTag) THEN InsertOgTags(output, og_tags) ELSE output,
     emitted |-> <<PostLogPrefix \o p.src_uri>>]

\* if "<head>" in output: the replacement and the log line.
InsertInHead(output, p, og_tags) ==
    IF Contains(output, HeadTag)
    THEN [output |-> InsertOgTags(output, og_tags),
          emitted |-> <<PostLogPrefix \o p.src_uri>>]
    ELSE [output |-> output, emitted |-> <<>>]

(***************************************************************************)
(* on_page_content(html, page, config, files): the frame the call ends     *)
(* with (how it ended, what it returned, its locals) and the log lines it  *)
(* emitted.                                                                *)
(***************************************************************************)
ContentFrame(status, ret, page_url, page_title, page_description, encoded_url) ==
    [status |-> status, ret |-> ret, page_url |-> page_url,
     page_title |-> page_title, page_description |-> page_description,
     encoded_url |-> encoded_url]

ContentCall(h, p, c) ==
    IF ~IsPost(p)
    THEN [frame |-> ContentFrame("returned", h, Unbound, Unbound, Unbound, Unbound),
          emitted |-> <<>>]
    ELSE LET raw == Get(c, "site_url", Str(<<>>))
         IN  IF raw.kind # "str"
             \* None.rstrip: AttributeError
             THEN [frame |-> ContentFrame("raised", <<>>, Unbound, Unbound, Unbound, Unbound),
                   emitted |-> <<>>]
             ELSE LET site_url == RStrip(raw.s, Slash)
                      page_url == ContentPageUrl(site_url, p)
                      page_title == ContentPageTitle(p)
                      page_description == ContentPageDescription(p, c)
                      encoded_url == EncodedUrl(page_url)
                      linkedin_share_url == LinkedInShareUrl(encoded_url)
                      share_button_html ==
                          ShareButtonHtml(linkedin_share_url, page_title, page_description)
                  IN  [frame |-> ContentFrame("returned",
                                              AppendShareButton(h, share_button_html),
                                              Str(page_url), page_title,
                                              page_description, Str(encoded_url)),
                       emitted |-> <<ContentLogPrefix \o p.src_uri>>]

(***************************************************************************)
(* on_post_page(output, page, config)                                      *)
(***************************************************************************)
PostFrame(status, ret, page_url, page_title, page_description) ==
    [status |-> status, ret |-> ret, page_url |-> page_url,
     page_title |-> page_title, page_description |-> page_description]

PostCall(output, p, c) ==
    IF ~IsPost(p)
    THEN [frame |-> PostFrame("returned", output, Unbound, Unbound, Unbound),
          emitted |-> <<>>]
    ELSE LET raw == Get(c, "site_url", Str(<<>>))
         IN  IF raw.kind # "str"
             \* None.rstrip: AttributeError
             THEN [frame |-> PostFrame("raised", <<>>, Unbound, Unbound, Unbound),
                   emitted |-> <<>>]
             ELSE LET site_url == RStrip(raw.s, Slash)
                      page_url == PostPageUrl(site_url, p)
                      page_title == PostPageTitle(p, c)
                      page_description == PostPageDescription(p, c)
                      og_tags == OgTags(page_url, page_title, page_description,
                                        Get(c, "site_name", Str(<<>>)))
                      inserted == InsertInHead(output, p, og_tags)
                  IN  [frame |-> PostFrame("returned", inserted.output,
                                           Str(page_url), page_title, page_description),
                       emitted |-> inserted.emitted]

(***************************************************************************)
(* The host calls the hooks: each call gets the page's HTML, the page and  *)
(* the configuration of the build, and its log lines go to the plugin      *)
(* logger.                                                                 *)
(***************************************************************************)
on_page_content ==
    /\ calls < MaxCalls
    /\ content' = ContentCall(html, page, config).frame
    /\ log' = log \o ContentCall(html, page, config).emitted
    /\ calls' = calls + 1
    /\ UNCHANGED <<html, page, config, post>>

on_post_page ==
    /\ calls < MaxCalls
    /\ post' = PostCall(html, page, config).frame
    /\ log' = log \o PostCall(html, page, config).emitted
    /\ calls' = calls + 1
    /\ UNCHANGED <<html, page, config, content>>

Next == on_page_content \/ on_post_page

(***************************************************************************)
(* Inputs.                                                                 *)
(***************************************************************************)
StrsUpTo(chars, n) == UNION {[1..k -> chars] : k \in 0..n}

RECURSIVE Flatten(_)
Flatten(ps) == IF ps = <<>> THEN <<>> ELSE Head(ps) \o Flatten(Tail(ps))

HtmlPieces == {HeadTag, <<"x">>, <<"<">>, <<"<", "h", "e", "a", "d">>}

Htmls == {Flatten(ps) : ps \in StrsUpTo(HtmlPieces, MaxPieces)}

FewHtmls == {<<>>, <<"x">>, HeadTag \o <<"x">>}

UrlChars == {"a", "/", "?", "=", ":", " ", "%", "2"}

\* "/a b?c=d", the path and query of the URL "https://x.com/posts/a b?c=d"
ExampleUrl == <<"/", "a", " ", "b", "?", "c", "=", "d">>

Urls == StrsUpTo(UrlChars, MaxUrlLen) \cup {ExampleUrl}

FewUrls == {<<>>, <<"/", "a", "/">>, <<"a", "?", "a", "=", " ">>}

PostPaths ==
    { PostsPrefix, PostsPrefix \o <<"a">> }

OtherPaths ==
    { <<>>, <<"i">>, PostsPrefixNoSlash, PostsPrefixNoSlash \o <<"x">>,
      <<"x">> \o PostsPrefix }

\* config["site_url"]: not in the dict, None (how the host stores a site_url
\* that is not set), or a str.
SiteUrls ==
    { Absent, None, Str(<<>>), Str(<<"/">>), Str(<<"/", "/">>),
      Str(<<"h", ":">>), Str(<<"h", ":", "/">>), Str(<<"h", ":", "/", "/">>),
      Str(<<"h", ":", "/", "a", "/">>) }

FewSiteUrls == {Absent, None, Str(<<>>), Str(<<"h", ":", "/">>)}

Titles == {None, Str(<<>>), Str(<<"T">>)}

\* site_name is a required str option of the host.
SiteNames == {Absent, Str(<<>>), Str(<<"N">>)}

SiteDescriptions == {Absent, None, Str(<<>>), Str(<<"D">>)}

Meta(kind, other, description) ==
    [kind |-> kind, other |-> other, description |-> description]

Metas ==
    { Meta("noattr", FALSE, Absent), Meta("None", FALSE, Absent),
      Meta("dict", FALSE, Absent), Meta("dict", TRUE, Absent),
      Meta("dict", FALSE, None), Meta("dict", FALSE, Str(<<>>)),
      Meta("dict", TRUE, Str(<<"M">>)) }

FewMetas == {Meta("noattr", FALSE, Absent), Meta("dict", TRUE, Str(<<"M">>))}

NoContentCall == ContentFrame("none", <<>>, Unbound, Unbound, Unbound, Unbound)

NoPostCall == PostFrame("none", <<>>, Unbound, Unbound, Unbound)

InitOver(paths, htmls, siteUrls, urls, titles, siteNames, siteDescriptions, metas) ==
    /\ html \in htmls
    /\ page \in [src_uri : paths, url : urls, title : titles, meta : metas]
    /\ config \in [site_url : siteUrls, site_name : siteNames,
                   site_description : siteDescriptions]
    /\ content = NoContentCall
    /\ post = NoPostCall
    /\ log = <<>>
    /\ calls = 0

\* Every kind of page and configuration, on a few documents and URLs.
Init ==
    InitOver(PostPaths \cup OtherPaths, FewHtmls, FewSiteUrls, FewUrls,
             Titles, {Absent, Str(<<"N">>)}, {Absent, Str(<<"D">>)}, FewMetas)

Spec == Init /\ [][Next]_vars

\* Every site URL and page URL.
InitUrl ==
    InitOver({PostsPrefix \o <<"a">>, <<"i">>}, {HeadTag}, SiteUrls, Urls,
             {Str(<<"T">>)}, {Str(<<"N">>)}, {Absent}, {Meta("noattr", FALSE, Absent)})

SpecUrl == InitUrl /\ [][Next]_vars

\* Every document.
InitHtml ==
    InitOver({PostsPrefix \o <<"a">>, <<"i">>}, Htmls,
             {Absent, Str(<<"h", ":", "/">>)}, {<<"/", "a", "/">>},
             {None, Str(HeadTag)}, {Str(<<"N">>)}, {Absent},
             {Meta("noattr", FALSE, Absent)})

SpecHtml == InitHtml /\ [][Next]_vars

\* Every title, description and site name.
InitMeta ==
    InitOver({PostsPrefix \o <<"a">>, <<"i">>}, {HeadTag \o <<"x">>},
             {Absent, Str(<<"h", ":", "/">>)}, {<<"/", "a", "/">>},
             Titles, SiteNames, SiteDescriptions, Metas)

SpecMeta == InitMeta /\ [][Next]_vars

(***************************************************************************)
(* What the properties read off a state.                                   *)
(***************************************************************************)
\* len(s): the number of characters of a text.
RECURSIVE StrLen(_)
StrLen(s) == IF s = <<>> THEN 0 ELSE Len(Head(s)) + StrLen(Tail(s))

\* Percent-decoding (urllib.parse.unquote), the inverse the round trip is
\* stated with: every %XX with two hex digits becomes the character of that
\* code; everything else is kept.
HexValue(c) == CHOOSE n \in 0..15 : HexDigits[n + 1] = c

IsHex(c) == \E n \in 1..16 : HexDigits[n] = c

Chr(n) == CHOOSE c \in DOMAIN Ord : Ord[c] = n

RECURSIVE Unquote(_)
Unquote(s) ==
    IF s = <<>> THEN <<>>
    ELSE IF /\ s[1] = "%"
            /\ Len(s) >= 3
            /\ IsHex(s[2])
            /\ IsHex(s[3])
            /\ \E c \in DOMAIN Ord : Ord[c] = 16 * HexValue(s[2]) + HexValue(s[3])
         THEN <<Chr(16 * HexValue(s[2]) + HexValue(s[3]))>>
                 \o Unquote(SubSeq(s, 4, Len(s)))
         ELSE <<s[1]>> \o Unquote(Tail(s))

\* The path of the page starts with the literal "posts/".
PathIsPost == StartsWith(page.src_uri, <<"p", "o", "s", "t", "s", "/">>)

OccursAt(s, sub, i) ==
    i >= 1 /\ i + Len(sub) - 1 <= Len(s) /\ SubSeq(s, i, i + Len(sub) - 1) = sub

Occurs(s, sub) == \E i \in 1..Len(s) : OccursAt(s, sub, i)

\* t is s without its trailing slashes.
IsRStripped(t, s) ==
    /\ Len(t) <= Len(s)
    /\ SubSeq(s, 1, Len(t)) = t
    /\ \A i \in (Len(t) + 1)..Len(s) : s[i] = "/"
    /\ (t # <<>> => t[Len(t)] # "/")

\* t is s without its leading slashes.
IsLStripped(t, s) ==
    /\ Len(t) <= Len(s)
    /\ SubSeq(s, Len(s) - Len(t) + 1, Len(s)) = t
    /\ \A i \in 1..(Len(s) - Len(t)) : s[i] = "/"
    /\ (t # <<>> => t[1] # "/")

\* The input characters that follow the literal text opener in s, up to the
\* next piece of literal template text.
RECURSIVE TakeChars(_)
TakeChars(s) ==
    IF s = <<>> \/ Len(Head(s)) # 1 THEN <<>> ELSE <<Head(s)>> \o TakeChars(Tail(s))

FieldAfter(s, opener) ==
    TakeChars(SubSeq(s, FindFrom(s, opener, 1) + Len(opener), Len(s)))

\* The percent-encoded URL in the href of the share link of content.ret.
ShareQueryValue == FieldAfter(content.ret, ShareButtonOpen \o LinkedInShareBase)

OgUrlWritten == FieldAfter(post.ret, OgOpen)

(***************************************************************************)
(* C1.  On a page whose path does not start with "posts/", both hooks      *)
(* return their HTML argument unchanged, whatever the html, the            *)
(* configuration and the metadata are.                                     *)
(***************************************************************************)
C1_NonPostIdentity ==
    ~PathIsPost =>
        /\ content.status # "none" => content.status = "returned" /\ content.ret = html
        /\ post.status # "none" => post.status = "returned" /\ post.ret = html

C1_Witness ==
    /\ page.src_uri = <<"p", "o", "s", "t", "s", "x">>
    /\ Occurs(html, HeadTag)
    /\ config.site_url = None
    /\ content.status = "returned"
    /\ post.status = "returned"

(***************************************************************************)
(* C2.  On a post, a call of on_post_page that returns gives back its      *)
(* input when the input holds no "<head>"; otherwise the input with the    *)
(* tag block inserted right after the first "<head>" and nowhere else, so  *)
(* the text before and after it is kept, a later "<head>" gets no block    *)
(* and the output is strictly longer than the input.                       *)
(***************************************************************************)
C2_InsertAfterFirstHead ==
    (PathIsPost /\ post.status = "returned") =>
        IF ~Occurs(html, HeadTag)
        THEN post.ret = html
        ELSE \E i \in 1..Len(html) :
                /\ OccursAt(html, HeadTag, i)
                /\ \A j \in 1..(i - 1) : ~OccursAt(html, HeadTag, j)
                /\ LET n == Len(post.ret) - Len(html)
                       before == SubSeq(html, 1, i + Len(HeadTag) - 1)
                       after == SubSeq(html, i + Len(HeadTag), Len(html))
                       block == SubSeq(post.ret, Len(before) + 1, Len(before) + n)
                   IN  /\ n > 0
                       /\ post.ret = before \o block \o after
                       /\ SubSeq(block, 1, Len(OgOpen)) = OgOpen
                       /\ SubSeq(block, n - Len(OgClose) + 1, n) = OgClose
                       /\ Cardinality({k \in 1..Len(post.ret) :
                                           OccursAt(post.ret, OgOpen, k)}) = 1
                       /\ StrLen(post.ret) > StrLen(html)

C2_Witness ==
    /\ PathIsPost
    /\ post.status = "returned"
    /\ \E i, j \in 1..Len(html) :
          i < j /\ OccursAt(html, HeadTag, i) /\ OccursAt(html, HeadTag, j)
    /\ post.ret # html

(***************************************************************************)
(* C3.  On a post, a call of on_page_content that returns gives back the   *)
(* input html followed by the share fragment: the input is a prefix of the *)
(* output, nothing of it is removed or altered, and the output is at least *)
(* as long as the input.                                                   *)
(***************************************************************************)
C3_FragmentAppended ==
    (PathIsPost /\ content.status = "returned") =>
        /\ Len(content.ret) >= Len(html)
        /\ SubSeq(content.ret, 1, Len(html)) = html
        /\ LET fragment == SubSeq(content.ret, Len(html) + 1, Len(content.ret))
           IN  /\ Len(fragment) >= Len(ShareButtonOpen) + Len(ShareButtonClose)
               /\ SubSeq(fragment, 1, Len(ShareButtonOpen)) = ShareButtonOpen
               /\ SubSeq(fragment, Len(fragment) - Len(ShareButtonClose) + 1,
                         Len(fragment)) = ShareButtonClose
        /\ StrLen(content.ret) >= StrLen(html)

C3_Witness ==
    /\ PathIsPost
    /\ content.status = "returned"
    /\ Occurs(html, HeadTag)
    /\ content.ret # html

(***************************************************************************)
(* C4.  Both hooks are total: no call raises, whatever optional inputs are *)
(* absent, empty or set.                                                   *)
(***************************************************************************)
C4_NeverRaises == content.status # "raised" /\ post.status # "raised"

(***************************************************************************)
(* C5.  As claimed: on a post, whenever config.site_url is a non-empty     *)
(* string (one made only of slashes included) the absolute URL of          *)
(* on_page_content is the site URL without its trailing slashes, one "/",  *)
(* and page.url without its leading slashes; only when it is empty or      *)
(* absent is the absolute URL page.url as it is.                           *)
(***************************************************************************)
C5_JoinedWheneverNonEmpty ==
    (PathIsPost /\ content.status = "returned") =>
        IF config.site_url.kind = "str" /\ config.site_url.s # <<>>
        THEN \E ns \in 0..Len(config.site_url.s), nr \in 0..Len(page.url) :
                LET site == SubSeq(config.site_url.s, 1, ns)
                    rel == SubSeq(page.url, Len(page.url) - nr + 1, Len(page.url))
                IN  /\ IsRStripped(site, config.site_url.s)
                    /\ IsLStripped(rel, page.url)
                    /\ content.page_url = Str(site \o <<"/">> \o rel)
        ELSE content.page_url = Str(page.url)

(***************************************************************************)
(* C5, amended.  On a post, when config.site_url is a string that is not   *)
(* empty once its trailing slashes are removed, the absolute URL of        *)
(* on_page_content is that trimmed site URL, one "/", and page.url without *)
(* its leading slashes; when config.site_url is made only of slashes, is   *)
(* empty or is not in the configuration, the absolute URL is page.url as   *)
(* it is.                                                                  *)
(***************************************************************************)
C5_JoinedWhenTrimmedNonEmpty ==
    (PathIsPost /\ content.status = "returned") =>
        IF /\ config.site_url.kind = "str"
           /\ \E i \in 1..Len(config.site_url.s) : config.site_url.s[i] # "/"
        THEN \E ns \in 1..Len(config.site_url.s), nr \in 0..Len(page.url) :
                LET site == SubSeq(config.site_url.s, 1, ns)
                    rel == SubSeq(page.url, Len(page.url) - nr + 1, Len(page.url))
                IN  /\ IsRStripped(site, config.site_url.s)
                    /\ IsLStripped(rel, page.url)
                    /\ content.page_url = Str(site \o <<"/">> \o rel)
        ELSE content.page_url = Str(page.url)

C5_Witness ==
    /\ PathIsPost
    /\ content.status = "returned"
    /\ config.site_url = Str(<<"/", "/">>)
    /\ page.url = <<"/", "a">>
    /\ content.page_url = Str(<<"/", "a">>)

(***************************************************************************)
(* C6.  On a post, the URL on_post_page writes into the og:url tag is the  *)
(* URL on_page_content percent-encodes into the share link, for every      *)
(* config.site_url and page.url.                                           *)
(***************************************************************************)
C6_SameAbsoluteUrl ==
    (/\ PathIsPost
     /\ content.status = "returned"
     /\ post.status = "returned"
     /\ Occurs(html, HeadTag)) =>
        /\ OgUrlWritten = content.page_url.s
        /\ OgUrlWritten = Unquote(ShareQueryValue)

(***************************************************************************)
(* C7.  On a post, the title on_post_page writes into og:title and         *)
(* twitter:title is page.title if it is not empty, else config.site_name   *)
(* if it is not empty, else the literal "Blog Post"; never an empty title. *)
(***************************************************************************)
C7_TitleFallsBackToLiteral ==
    (PathIsPost /\ post.status = "returned" /\ Occurs(html, HeadTag)) =>
        LET expected ==
                IF page.title.kind = "str" /\ page.title.s # <<>> THEN page.title.s
                ELSE IF config.site_name.kind = "str" /\ config.site_name.s # <<>>
                     THEN config.site_name.s
                     ELSE <<"Blog Post">>
            written == SubSeq(post.ret,
                              FindFrom(post.ret, OgTitleOpen, 1) + Len(OgTitleOpen),
                              FindFrom(post.ret, OgDescriptionOpen, 1) - 1)
            twitter == SubSeq(post.ret,
                              FindFrom(post.ret, TwitterTitleOpen, 1) + Len(TwitterTitleOpen),
                              FindFrom(post.ret, TwitterDescriptionOpen, 1) - 1)
        IN  /\ written = expected
            /\ twitter = expected
            /\ written # <<>>

(***************************************************************************)
(* C8.  On a post, the percent-encoding on_page_content applies to the     *)
(* absolute URL is undone by percent-decoding, leaves no raw "/", "?",     *)
(* "=" or space, and the href of the share link is exactly                 *)
(* "https://www.linkedin.com/sharing/share-offsite/?url=" followed by the  *)
(* encoded value.                                                          *)
(***************************************************************************)
C8_EncodingRoundTrips ==
    (PathIsPost /\ content.status = "returned") =>
        LET encoded == content.encoded_url.s
        IN  /\ Unquote(encoded) = content.page_url.s
            /\ \A i \in 1..Len(encoded) : encoded[i] \notin {"/", "?", "=", " "}
            /\ content.ret =
                  html \o ShareButtonOpen
                       \o <<"https://www.linkedin.com/sharing/share-offsite/?url=">>
                       \o encoded \o ShareButtonClose

C8_Witness ==
    /\ PathIsPost
    /\ content.status = "returned"
    /\ content.page_url = Str(<<"h", ":", "/", "a", " ", "b", "?", "c", "=", "d">>)
    /\ content.encoded_url =
          Str(<<"h", "%", "3", "A", "%", "2", "F", "a", "%", "2", "0",
                "b", "%", "3", "F", "c", "%", "3", "D", "d">>)

(***************************************************************************)
(* C9.  Every call appends at most one line to the log, and appends one    *)
(* exactly when it returns HTML that differs from its argument:            *)
(* on_page_content one line for each call on a post that returns and none  *)
(* on another page; on_post_page one line for each call that returns on a  *)
(* post whose output holds "<head>", and none on another page or on a post *)
(* without "<head>".                                                       *)
(***************************************************************************)
C9_LogExactlyWhenChanged ==
    [][ LET n == Len(log') - Len(log)
        IN  /\ n \in {0, 1}
            /\ SubSeq(log', 1, Len(log)) = log
            /\ on_page_content =>
                  /\ n = 1 <=> (content'.status = "returned" /\ content'.ret # html)
                  /\ content'.status = "returned" => (n = 1 <=> PathIsPost)
                  /\ n = 1 => log'[Len(log')] =
                                  <<"Added LinkedIn share button to: ">> \o page.src_uri
            /\ on_post_page =>
                  /\ n = 1 <=> (post'.status = "returned" /\ post'.ret # html)
                  /\ post'.status = "returned" =>
                        (n = 1 <=> (PathIsPost /\ Occurs(html, HeadTag)))
                  /\ n = 1 => log'[Len(log')] =
                                  <<"Added Open Graph meta tags to: ">> \o page.src_uri
      ]_vars

C9_Witness ==
    /\ PathIsPost
    /\ Occurs(html, HeadTag)
    /\ calls = 2
    /\ content.status = "returned"
    /\ post.status = "returned"
    /\ Len(log) = 2

====
